---- MODULE Spec2Model ----
(***************************************************************************)
(* Tab/session state machine of EnhancedNotepad (src/notepad.py).          *)
(*                                                                         *)
(* Indices are Python indices (0-based); the tab at index i is tabs[i+1].  *)
(* A text widget is modelled by its content and by Tk's "modified" flag:   *)
(* the flag is raised by every insert/delete, Tk then queues one           *)
(* <<Modified>> event for the widget, and the handler on_text_modified     *)
(* lowers the flag again.  A raised flag therefore means that the handler  *)
(* is still to run for that widget.  Tk delivers a queued <<Modified>>     *)
(* event before it reads the next input event, so the input handlers run   *)
(* only when no widget has its flag raised (Idle).                         *)
(*                                                                         *)
(* lastOp and the field saved_len are observers, not program state: lastOp *)
(* names the last operation that changed the session (an outcome that      *)
(* changes nothing leaves every variable alone, except an aborted close    *)
(* and a failed save, which are recorded), and saved_len, kept only when   *)
(* world.observe is set, is a document's own content length at its         *)
(* creation, open or last successful save.  world is the environment of    *)
(* the run and never changes: the path spellings the file dialogs and the  *)
(* recent-files menu hand to the program, the platform's line separator,   *)
(* the number of tabs the run may hold, whether Tab and BackSpace are      *)
(* pressed in the run,                                                     *)
(* and whether the files are private to the program (disk then holds what  *)
(* the files contain) or shared with other programs (a read then meets any *)
(* content, and disk is left empty).                                       *)
(*                                                                         *)
(* All callbacks run on Tk's single thread.  A handler runs to its end     *)
(* before the next event is read; the one place where the model lets the   *)
(* event loop run inside a handler is the error dialog of a save made by   *)
(* auto_save, where a timer that is due fires.                             *)
(***************************************************************************)
EXTENDS Integers, Sequences, FiniteSets, TLC

\* ---------------------------------------------------------------- bounds
MaxTabs == 2
MaxLen == 1

\* The depth of nested auto_save calls the model follows.
MaxPasses == 2

\* The length of the files the program finds on a private disk.
MaxBytes == 2

\* The length of the texts that are searched.
MaxText == 3

\* The length of the texts of the search and replace entries.
MaxEntry == 2

NumFiles == 12

\* The longest text the Tab key may build in one document.
MaxIndent == 4

\* ------------------------------------------------------- input alphabets
Chars == {"a"}

Texts == UNION {[1..n -> Chars] : n \in 0..MaxLen}

\* A path is the sequence of its components; None / "" is the empty path.
NoPath == <<>>

PathA == <<"d", "a.txt">>

PathADot == <<"d", ".", "a.txt">>

Paths == {PathA, PathADot}

Answers == {"yes", "no", "cancel"}

\* What open() and read() meet: a missing file, an unreadable one, or a text.
FileStates ==
    {[kind |-> "missing", text |-> <<>>], [kind |-> "unreadable", text |-> <<>>]}
        \cup {[kind |-> "text", text |-> t] : t \in Texts}

\* What a save meets: the answer of the Save-As dialog (NoPath: cancelled;
\* consulted only for a tab without a path) and whether the write succeeds.
NoSave == [dlg |-> NoPath, ok |-> TRUE]

FailSave == [dlg |-> PathA, ok |-> FALSE]

SaveInputs == {NoSave, FailSave} \cup {[dlg |-> p, ok |-> TRUE] : p \in Paths}

\* First lines of the welcome text of create_first_tab, cut to MaxLen.
WelcomeText == <<"a">>

\* recent_files[-10:]
RecentLimit == 10

\* settings.json is absent, is not a JSON object (or cannot be read), or
\* holds a JSON object: data maps the keys it has to their values.
NoFile == [kind |-> "missing", data |-> <<>>]

CorruptFile == [kind |-> "corrupt", data |-> <<>>]

JsonFile(data) == [kind |-> "json", data |-> data]

\* The directory a custom_settings_path names.
CustomDir == <<"c">>

VARIABLES tabs, current_tab, last_saved_count, running, lastOp, world,
          settings, settings_files, disk, timers, passes

\* settings: self.settings; settings_files: settings.json at the default
\* location and in CustomDir, and whether CustomDir exists; disk: the
\* content of the files (private files only); timers: the number of pending
\* root.after(120000, self.auto_save) callbacks; passes: the stack of
\* auto_save calls that have started and not returned.
vars == <<tabs, current_tab, last_saved_count, running, lastOp, world,
          settings, settings_files, disk, timers, passes>>

store_vars == <<settings, settings_files>>

timer_vars == <<timers, passes>>

\* ------------------------------------------------------------- helpers

\* os.path.basename
Basename(p) == p[Len(p)]

\* dict.get(k, 0)
Get(d, k) == IF k \in DOMAIN d THEN d[k] ELSE 0

\* d[k] = v
Put(d, k, v) == [x \in (DOMAIN d) \cup {k} |-> IF x = k THEN v ELSE d[x]]

\* 0 <= tab_idx < len(self.tabs)
ValidIdx(ts, i) == 0 <= i /\ i < Len(ts)

\* list.pop(i)
RemoveAt(ts, i) == [k \in 1..(Len(ts) - 1) |-> IF k <= i THEN ts[k] ELSE ts[k + 1]]

Op(op, idx, ans, saved, res) ==
    [op |-> op, idx |-> idx, ans |-> ans, saved |-> saved, res |-> res]

\* The observed length, 0 when observation is off.
Observe(n) == IF world.observe THEN n ELSE 0

\* The index the <Tab> and <BackSpace> bindings of a text area carry.  Only
\* handle_tab and handle_backspace read it, so it is kept only in the runs
\* in which these keys are pressed (world.keys).
KeyIdx(n) == IF world.keys THEN n ELSE 0

\* Python's seq[-n:]
LastNFromStart(seq, n) == IF Len(seq) <= n THEN seq ELSE SubSeq(seq, 1, n)

LastN(seq, n) == IF Len(seq) <= n THEN seq ELSE SubSeq(seq, Len(seq) - n + 1, Len(seq))

\* x in list
Range(seq) == {seq[k] : k \in 1..Len(seq)}

NotDot(c) == c # "."

\* os.path.abspath: the file a spelling names.
AbsPath(p) == SelectSeq(p, NotDot)

\* ---------------------------------------------------------------- settings

\* default_settings of load_settings
DefaultSettings ==
    [theme |-> "dark", font |-> "Consolas", font_size |-> 12, auto_save |-> TRUE,
     word_wrap |-> TRUE, tab_size |-> 4, show_line_numbers |-> TRUE,
     recent_files |-> <<>>, auto_indent |-> TRUE,
     highlight_current_line |-> TRUE, custom_settings_path |-> NoPath]

\* {**a, **b} and a.update(b)
Merge(a, b) ==
    [k \in (DOMAIN a) \cup (DOMAIN b) |-> IF k \in DOMAIN b THEN b[k] ELSE a[k]]

\* except Exception as e: print(...), then the final return default_settings
OnLoadErrorRaise(defaults) == [raised |-> TRUE, settings |-> defaults]

OnLoadError(defaults) == [raised |-> FALSE, settings |-> defaults]

\* load_settings: json.load and the merge raise on a corrupt file.
LoadSettings(files) ==
    IF files.default.kind = "missing"
    THEN [raised |-> FALSE, settings |-> DefaultSettings]
    ELSE IF files.default.kind = "corrupt" THEN OnLoadError(DefaultSettings)
    ELSE LET merged == Merge(DefaultSettings, files.default.data)
         IN IF merged.custom_settings_path # NoPath /\ files.custom_dir
            THEN IF files.custom.kind = "missing"
                 THEN [raised |-> FALSE, settings |-> merged]
                 ELSE IF files.custom.kind = "corrupt"
                 THEN OnLoadError(DefaultSettings)
                 ELSE [raised |-> FALSE,
                       settings |-> Merge(merged, files.custom.data)]
            ELSE [raised |-> FALSE, settings |-> merged]

\* if self.settings.get("auto_save", True): self.root.after(120000, ...)
StartTimers(s) == IF s.auto_save THEN 1 ELSE 0

\* The file paths of the open tabs, in tab order, pathless tabs left out.
RECURSIVE TabPaths(_)
TabPaths(ts) ==
    IF ts = <<>> THEN <<>>
    ELSE IF Head(ts).file_path # NoPath
    THEN <<Head(ts).file_path>> \o TabPaths(Tail(ts))
    ELSE TabPaths(Tail(ts))

\* for file_path in stored: if file_path not in recent_files and exists
RECURSIVE AddStored(_, _, _)
AddStored(recent_files, stored, exist) ==
    IF stored = <<>> THEN recent_files
    ELSE IF Head(stored) \notin Range(recent_files) /\ Head(stored) \in exist
    THEN AddStored(Append(recent_files, Head(stored)), Tail(stored), exist)
    ELSE AddStored(recent_files, Tail(stored), exist)

\* get_recent_files; exist is the set of paths os.path.exists finds.
GetRecentFiles(ts, s, exist) ==
    LastN(AddStored(TabPaths(ts), s.recent_files, exist), RecentLimit)

\* saveable_settings of save_settings
SavedKeys ==
    {"theme", "font", "font_size", "tab_size", "word_wrap", "show_line_numbers",
     "recent_files", "highlight_current_line", "custom_settings_path"}

\* save_settings: the file is written in the custom directory (created when
\* it is not there) if custom_settings_path is set, else at the default
\* location.  The write is taken to succeed.
SaveSettings(files, ts, s, exist) ==
    LET saveable_settings ==
            [k \in SavedKeys |-> IF k = "recent_files"
                                 THEN GetRecentFiles(ts, s, exist) ELSE s[k]]
    IN IF s.custom_settings_path # NoPath
       THEN [files EXCEPT !.custom = JsonFile(saveable_settings), !.custom_dir = TRUE]
       ELSE [files EXCEPT !.default = JsonFile(saveable_settings)]

\* What os.path.exists can answer for a set of paths: what disk holds if the
\* files are private, anything if they are shared.
ExistSets(d, consulted) ==
    IF world.private
    THEN {{p \in consulted : AbsPath(p) \in DOMAIN d}}
    ELSE SUBSET consulted

\* The paths a handler asks os.path.exists about when it records the paths
\* added in recent_files: get_recent_files runs only if one of them is new.
Consulted(s, added) ==
    IF added \subseteq Range(s.recent_files) THEN {} ELSE Range(s.recent_files)

\* if file_path not in recent_files: append, keep the last 10
WithRecent(s, file_path) ==
    [s EXCEPT !.recent_files = LastN(Append(@, file_path), RecentLimit)]

\* The recent-files update of open_specific_file and save_as_file, including
\* its save_settings: the settings and settings files after it.
RecordRecent(files, ts, s, file_path, exist) ==
    IF file_path \in Range(s.recent_files)
    THEN [settings |-> s, files |-> files]
    ELSE [settings |-> WithRecent(s, file_path),
          files |-> SaveSettings(files, ts, WithRecent(s, file_path), exist)]

\* ------------------------------------------------------------------- files

\* open(file_path, "r").read(): universal newlines, "\r\n" and "\r" are
\* read as "\n".
RECURSIVE ReadText(_)
ReadText(bytes) ==
    IF bytes = <<>> THEN <<>>
    ELSE IF Head(bytes) = "\r"
    THEN IF Len(bytes) >= 2 /\ bytes[2] = "\n"
         THEN <<"\n">> \o ReadText(Tail(Tail(bytes)))
         ELSE <<"\n">> \o ReadText(Tail(bytes))
    ELSE <<Head(bytes)>> \o ReadText(Tail(bytes))

\* open(file_path, "w").write(content): "\n" is written as os.linesep.
RECURSIVE WriteText(_, _)
WriteText(content, linesep) ==
    IF content = <<>> THEN <<>>
    ELSE IF Head(content) = "\n"
    THEN linesep \o WriteText(Tail(content), linesep)
    ELSE <<Head(content)>> \o WriteText(Tail(content), linesep)

TextFile(bytes) == [kind |-> "text", text |-> bytes]

\* What open() and read() meet on a private disk.
DiskRead(d, file_path) ==
    IF AbsPath(file_path) \in DOMAIN d THEN d[AbsPath(file_path)]
    ELSE [kind |-> "missing", text |-> <<>>]

\* The files after content has been written to file_path.
DiskWrite(d, file_path, content) ==
    IF world.private
    THEN [x \in (DOMAIN d) \cup {AbsPath(file_path)} |->
             IF x = AbsPath(file_path)
             THEN TextFile(WriteText(content, world.linesep)) ELSE d[x]]
    ELSE d

\* --------------------------------------------------------------- new_tab

\* tab_data of new_tab; saved_len is an observer field: the document's own
\* content length when it was created, opened or last saved.  insert is the
\* INSERT mark of the text area, as a count of characters from "1.0" (the
\* mark follows the text inserted at it), and sel its selection, <<>> or
\* <<first, last>>.
NewTabData(content, title, file_path, n) ==
    [title |-> title,
     tab_title |-> <<title>>,
     file_path |-> file_path,
     modified |-> FALSE,
     content |-> content,
     edit_modified |-> (content # <<>>),
     bind_idx |-> n,
     status_idx |-> n,
     label_idx |-> n,
     close_idx |-> n,
     key_idx |-> KeyIdx(n),
     saved_len |-> Observe(Len(content)),
     insert |-> Len(content),
     sel |-> <<>>]

\* update_tab_title: the text of the tab's label, as the pieces it is
\* joined from.
UpdateTabTitlePlain(t) == [t EXCEPT !.tab_title = <<t.title>>]

UpdateTabTitle(t) ==
    [t EXCEPT !.tab_title = IF t.modified THEN <<t.title, " *">> ELSE <<t.title>>]

NewTab(ts, lsc, content, title, file_path) ==
    [tabs |-> Append(ts, NewTabData(content, title, file_path, Len(ts))),
     lsc |-> Put(lsc, Len(ts), 0),
     cur |-> Len(ts)]

\* The inputs that can make a difference to a save of tab t: the dialog is
\* shown only for a tab without a path, and offers the paths of the world.
SaveInputsOf(t) ==
    IF t.file_path = NoPath
    THEN {inp \in SaveInputs : inp.dlg \in world.paths \cup {NoPath}}
    ELSE {NoSave, FailSave}

\* The inputs of the saves of on_close: one per tab, none after the save
\* that stops the loop.
SaveAllInputs(ts) ==
    {inps \in [0..(Len(ts) - 1) -> SaveInputs] :
        \A i \in DOMAIN inps :
            /\ inps[i] \in SaveInputsOf(ts[i + 1])
            /\ \A j \in DOMAIN inps :
                   (j < i /\ (inps[j] = FailSave \/ (inps[j] = NoSave
                                   /\ ts[j + 1].file_path = NoPath)))
                       => inps[i] = NoSave}

\* No <<Modified>> event is waiting in Tk's queue and no callback is running:
\* the next input event can be read.
Idle == passes = <<>> /\ \A k \in 1..Len(tabs) : ~tabs[k].edit_modified

\* ------------------------------------------------------------ select_tab
SelectTab(ts, cur, idx) == IF ValidIdx(ts, idx) THEN idx ELSE cur

\* State after __init__: load_settings has read the settings files,
\* create_first_tab has run new_tab(welcome_text), and the first auto_save
\* is scheduled if the settings ask for it.  An exception that leaves
\* load_settings ends the start-up.
Start ==
    LET r == NewTab(<<>>, <<>>, WelcomeText, "Welcome", NoPath)
        loaded == LoadSettings(settings_files)
    IN /\ tabs = r.tabs
       /\ current_tab = r.cur
       /\ last_saved_count = r.lsc
       /\ running = ~loaded.raised
       /\ lastOp = Op("create_first_tab", 0, "none", "none", "ok")
       /\ settings = loaded.settings
       /\ timers = IF loaded.raised THEN 0 ELSE StartTimers(loaded.settings)
       /\ passes = <<>>

\* Files shared with other programs, on a platform whose os.linesep is "\n".
Shared(paths, observe) ==
    [paths |-> paths, observe |-> observe, private |-> FALSE, linesep |-> <<"\n">>,
     max_tabs |-> MaxTabs, keys |-> FALSE]

\* A settings.json at the default location that turns auto_save off and
\* lists recent_files; no custom directory.
StoredSettings(recent_files) ==
    [default |-> JsonFile([auto_save |-> FALSE, recent_files |-> recent_files]),
     custom |-> NoFile,
     custom_dir |-> FALSE]

Init ==
    /\ world = Shared({PathA}, FALSE)
    /\ settings_files = StoredSettings(<<PathA>>)
    /\ disk = <<>>
    /\ Start

InitObs ==
    /\ world = Shared(Paths, TRUE)
    /\ settings_files = StoredSettings(<<PathA, PathADot>>)
    /\ disk = <<>>
    /\ Start

new_tab ==
    /\ running
    /\ Idle
    /\ Len(tabs) < MaxTabs
    /\ LET r == NewTab(tabs, last_saved_count, <<>>, "Untitled", NoPath)
       IN /\ tabs' = r.tabs
          /\ current_tab' = r.cur
          /\ last_saved_count' = r.lsc
          /\ lastOp' = Op("new_tab", r.cur, "none", "none", "ok")
    /\ UNCHANGED <<running, world, store_vars, disk, timer_vars>>

\* The body of select_tab, as a step from the current state.
Select(idx) ==
    IF SelectTab(tabs, current_tab, idx) = current_tab
    THEN UNCHANGED vars
    ELSE /\ current_tab' = SelectTab(tabs, current_tab, idx)
         /\ lastOp' = Op("select_tab", -1, "none", "none", "ok")
         /\ UNCHANGED <<tabs, last_saved_count, running, world, store_vars, disk,
                        timer_vars>>

select_tab(idx) == running /\ Idle /\ Select(idx)

next_tab == running /\ Idle /\ Select((current_tab + 1) % Len(tabs))

previous_tab == running /\ Idle /\ Select((current_tab - 1) % Len(tabs))

\* ------------------------------------------------- editing the text widget

\* The user types character c at the end of the focused (active) text area.
type_char(c) ==
    /\ running
    /\ Idle
    /\ ValidIdx(tabs, current_tab)
    /\ Len(tabs[current_tab + 1].content) < MaxLen
    /\ tabs' = [tabs EXCEPT ![current_tab + 1] =
                   [@ EXCEPT !.content = Append(@, c), !.edit_modified = TRUE,
                             !.insert = Len(tabs[current_tab + 1].content) + 1, !.sel = <<>>]]
    /\ lastOp' = Op("type_char", -1, "none", "none", "ok")
    /\ UNCHANGED <<current_tab, last_saved_count, running, world, store_vars, disk,
                   timer_vars>>

\* The user deletes the last character of the focused (active) text area.
delete_char ==
    /\ running
    /\ Idle
    /\ ValidIdx(tabs, current_tab)
    /\ Len(tabs[current_tab + 1].content) > 0
    /\ tabs' = [tabs EXCEPT ![current_tab + 1] =
                   [@ EXCEPT !.content = SubSeq(@, 1, Len(@) - 1),
                             !.edit_modified = TRUE,
                             !.insert = Len(tabs[current_tab + 1].content) - 1, !.sel = <<>>]]
    /\ lastOp' = Op("delete_char", -1, "none", "none", "ok")
    /\ UNCHANGED <<current_tab, last_saved_count, running, world, store_vars, disk,
                   timer_vars>>

\* ------------------------------------------------------- on_text_modified

\* The handler body, for the index the <<Modified>> binding carries.
OnTextModified(ts, lsc, tab_idx) ==
    IF ValidIdx(ts, tab_idx)
    THEN LET t == ts[tab_idx + 1]
             current_count == Len(t.content)
             last_count == Get(lsc, tab_idx)
             reset == [t EXCEPT !.edit_modified = FALSE]
         IN [ts EXCEPT ![tab_idx + 1] =
                IF current_count # last_count /\ ~t.modified
                THEN UpdateTabTitle([reset EXCEPT !.modified = TRUE])
                ELSE reset]
    ELSE ts

\* Tk delivers the <<Modified>> event queued for the text area of tab w.
on_text_modified(w) ==
    /\ running
    /\ tabs[w + 1].edit_modified
    /\ tabs' = OnTextModified(tabs, last_saved_count, tabs[w + 1].bind_idx)
    /\ lastOp' = Op("on_text_modified", tabs[w + 1].bind_idx, "none", "none", "ok")
    /\ UNCHANGED <<current_tab, last_saved_count, running, world, store_vars, disk,
                   timer_vars>>

\* ------------------------------------------------------ open_specific_file

\* for i, tab in enumerate(self.tabs): if tab["file_path"] == file_path
AlreadyOpen(ts, file_path) == {i \in 0..(Len(ts) - 1) : ts[i + 1].file_path = file_path}

FirstOf(S) == CHOOSE i \in S : \A j \in S : i <= j

open_specific_file(file_path, file) ==
    /\ running
    /\ Idle
    /\ IF file.kind # "text"
       THEN UNCHANGED vars
       ELSE IF AlreadyOpen(tabs, file_path) # {}
       THEN Select(FirstOf(AlreadyOpen(tabs, file_path)))
       ELSE /\ Len(tabs) < world.max_tabs
            /\ LET content == ReadText(file.text)
                   r == NewTab(tabs, last_saved_count, content,
                               Basename(file_path), file_path)
                   tab_idx == Len(r.tabs) - 1
                   opened == [r.tabs EXCEPT ![tab_idx + 1] =
                                 UpdateTabTitle([@ EXCEPT !.modified = FALSE])]
               IN /\ tabs' = opened
                  /\ current_tab' = r.cur
                  /\ last_saved_count' = Put(r.lsc, tab_idx, Len(content))
                  /\ lastOp' = Op("open", tab_idx, "none", "none", "ok")
                  /\ \E exist \in ExistSets(disk, Consulted(settings, {file_path})) :
                         LET rr == RecordRecent(settings_files, opened, settings,
                                                file_path, exist)
                         IN /\ settings' = rr.settings
                            /\ settings_files' = rr.files
            /\ UNCHANGED <<running, world, disk, timer_vars>>

\* ------------------------------------------------ save_file / save_as_file

\* State of the tab after save_file has written it.
SavedTab(t) ==
    UpdateTabTitle([t EXCEPT !.modified = FALSE, !.saved_len = Observe(Len(t.content))])

\* State of the tab after save_as_file has written it to file_path.
SavedAsTab(t, file_path) ==
    UpdateTabTitle([t EXCEPT !.title = Basename(file_path),
                             !.file_path = file_path,
                             !.modified = FALSE,
                             !.saved_len = Observe(Len(t.content))])

\* try: write the file, then update the tab / except: report, leave the tab.
WriteThenEager(t, updated, ok) == updated

WriteThen(t, updated, ok) == IF ok THEN updated ELSE t

Result(ts, lsc, res) == [tabs |-> ts, lsc |-> lsc, res |-> res]

\* dlg is the answer of the Save-As file dialog, ok the outcome of the write.
SaveAsFile(ts, lsc, tab_idx, dlg, ok) ==
    IF ~ValidIdx(ts, tab_idx) THEN Result(ts, lsc, "invalid")
    ELSE IF dlg = NoPath THEN Result(ts, lsc, "cancelled")
    ELSE LET t == ts[tab_idx + 1]
         IN Result([ts EXCEPT ![tab_idx + 1] = WriteThen(t, SavedAsTab(t, dlg), ok)],
                   IF ok THEN Put(lsc, tab_idx, Len(t.content)) ELSE lsc,
                   IF ok THEN "ok" ELSE "failed")

SaveFile(ts, lsc, tab_idx, dlg, ok) ==
    IF ~ValidIdx(ts, tab_idx) THEN Result(ts, lsc, "invalid")
    ELSE IF ts[tab_idx + 1].file_path = NoPath
    THEN SaveAsFile(ts, lsc, tab_idx, dlg, ok)
    ELSE LET t == ts[tab_idx + 1]
         IN Result([ts EXCEPT ![tab_idx + 1] = WriteThen(t, SavedTab(t), ok)],
                   IF ok THEN Put(lsc, tab_idx, Len(t.content)) ELSE lsc,
                   IF ok THEN "ok" ELSE "failed")

\* What a save leaves outside the tabs: the files, and the settings with
\* their files.
Env(d, s, files) == [disk |-> d, settings |-> s, files |-> files]

\* Env after the save of tab tab_idx of ts that returned r: a successful
\* save has written the tab's content to the path the tab now has, and a
\* save_as_file (asked) has recorded that path in recent_files.
SaveEnv(env, ts, tab_idx, r, asked, exist) ==
    IF r.res # "ok" THEN env
    ELSE LET file_path == r.tabs[tab_idx + 1].file_path
             rr == IF asked
                   THEN RecordRecent(env.files, r.tabs, env.settings, file_path, exist)
                   ELSE [settings |-> env.settings, files |-> env.files]
         IN Env(DiskWrite(env.disk, file_path, ts[tab_idx + 1].content),
                rr.settings, rr.files)

\* save_file asks for a path (runs save_as_file) for a tab without one.
Asked(ts, tab_idx) == ValidIdx(ts, tab_idx) /\ ts[tab_idx + 1].file_path = NoPath

\* A save of the active tab, as a step: r is what the save returned.
SaveStep(op, r, asked, dlg) ==
    IF r.res \in {"invalid", "cancelled"}
    THEN UNCHANGED vars
    ELSE /\ tabs' = r.tabs
         /\ last_saved_count' = r.lsc
         /\ lastOp' = Op(op, current_tab, "none", r.res, r.res)
         /\ \E exist \in ExistSets(disk, IF asked THEN Consulted(settings, {dlg}) ELSE {}) :
                LET e == SaveEnv(Env(disk, settings, settings_files), tabs,
                                 current_tab, r, asked, exist)
                IN /\ disk' = e.disk
                   /\ settings' = e.settings
                   /\ settings_files' = e.files
         /\ UNCHANGED <<current_tab, running, world, timer_vars>>

save_file(inp) ==
    /\ running
    /\ Idle
    /\ SaveStep("save_file",
                SaveFile(tabs, last_saved_count, current_tab, inp.dlg, inp.ok),
                Asked(tabs, current_tab), inp.dlg)

save_as_file(inp) ==
    /\ running
    /\ Idle
    /\ SaveStep("save_as_file",
                SaveAsFile(tabs, last_saved_count, current_tab, inp.dlg, inp.ok),
                TRUE, inp.dlg)

\* ------------------------------------------------------- find and replace

\* The search found nothing: text_area.search returns "".
NotFound == -1

\* str.lower, as nocase=True compares.
Lower(c) == IF c = "A" THEN "a" ELSE IF c = "B" THEN "b" ELSE c

\* pat matches text at offset k, letter case ignored.
MatchAt(text, pat, k) ==
    /\ k + Len(pat) <= Len(text)
    /\ \A j \in 1..Len(pat) : Lower(text[k + j]) = Lower(pat[j])

\* text_area.search(pat, start, stopindex=stop, nocase=True): the first match
\* that starts at or after start and before stop; the search does not wrap.
TkSearch(text, pat, start, stop) ==
    LET hits == {k \in start..(stop - 1) : MatchAt(text, pat, k)}
    IN IF hits = {} THEN NotFound ELSE CHOOSE k \in hits : \A h \in hits : k <= h

\* start_pos = text_area.index(tk.INSERT)
SearchFromNext(insert) == insert + 1

SearchFrom(insert) == insert

\* if not pos: pos = text_area.search(search_text, "1.0", stopindex=start_pos)
WrapSearchNone(text, pat, start_pos) == NotFound

WrapSearch(text, pat, start_pos) == TkSearch(text, pat, 0, start_pos)

\* find_next on text area t: whether it found a match, and the text area
\* after it (the match is selected and INSERT is put at its end).
FindNext(t, search_text) ==
    LET start_pos == SearchFrom(t.insert)
        first == TkSearch(t.content, search_text, start_pos, Len(t.content) + 1)
        pos == IF first # NotFound THEN first
               ELSE WrapSearch(t.content, search_text, start_pos)
        end_pos == pos + Len(search_text)
    IN IF pos # NotFound
       THEN [found |-> TRUE, tab |-> [t EXCEPT !.insert = end_pos, !.sel = <<pos, end_pos>>]]
       ELSE [found |-> FALSE, tab |-> t]

\* What find and replace leave in lastOp: the entries' texts, the INSERT
\* mark the operation started from, and the count replace_all reports.
OpSearch(op, idx, ans, saved, res, search_text, replace_text, start_pos, count) ==
    [op |-> op, idx |-> idx, ans |-> ans, saved |-> saved, res |-> res,
     search_text |-> search_text, replace_text |-> replace_text,
     start_pos |-> start_pos, count |-> count]

\* The user clicks into the active text area: INSERT is set, the selection
\* is dropped.
click(pos) ==
    /\ running
    /\ Idle
    /\ ValidIdx(tabs, current_tab)
    /\ pos <= Len(tabs[current_tab + 1].content)
    /\ tabs' = [tabs EXCEPT ![current_tab + 1] = [@ EXCEPT !.insert = pos, !.sel = <<>>]]
    /\ lastOp' = Op("click", -1, "none", "none", "ok")
    /\ UNCHANGED <<current_tab, last_saved_count, running, world, store_vars, disk,
                   timer_vars>>

\* find_next with search_text in the search entry; an empty entry returns
\* at once.
find_next(search_text) ==
    /\ running
    /\ Idle
    /\ ValidIdx(tabs, current_tab)
    /\ IF search_text = <<>>
       THEN UNCHANGED vars
       ELSE LET t == tabs[current_tab + 1]
                f == FindNext(t, search_text)
            IN /\ tabs' = [tabs EXCEPT ![current_tab + 1] = f.tab]
               /\ lastOp' = OpSearch("find_next", current_tab, "none", "none",
                                      IF f.found THEN "found" ELSE "not_found",
                                      search_text, <<>>, t.insert, 0)
               /\ UNCHANGED <<current_tab, last_saved_count, running, world,
                              store_vars, disk, timer_vars>>

\* text_area.delete(start, end); text_area.insert(start, replace_text)
ReplaceRange(content, start, end, replace_text) ==
    SubSeq(content, 1, start) \o replace_text \o SubSeq(content, end + 1, Len(content))

\* new_pos = f"{start}+{len(replace_text)}c"
AfterReplaceStart(start, replace_text) == start

AfterReplace(start, replace_text) == start + Len(replace_text)

\* The text area after the replacement of its selection by replace_next.
ReplaceSelection(t, replace_text) ==
    [t EXCEPT !.content = ReplaceRange(t.content, t.sel[1], t.sel[2], replace_text),
              !.edit_modified = TRUE,
              !.insert = AfterReplace(t.sel[1], replace_text),
              !.sel = <<>>]

replace_next(search_text, replace_text) ==
    /\ running
    /\ Idle
    /\ ValidIdx(tabs, current_tab)
    /\ IF search_text = <<>>
       THEN UNCHANGED vars
       ELSE LET t == tabs[current_tab + 1]
                found == FindNext(t, search_text)
                replaced == ReplaceSelection(found.tab, replace_text)
                again == FindNext(replaced, search_text)
            IN /\ found.found => Len(replaced.content) <= MaxText
               /\ tabs' = [tabs EXCEPT ![current_tab + 1] =
                              IF found.found THEN again.tab ELSE found.tab]
               /\ lastOp' = OpSearch("replace_next", current_tab, "none",
                                      IF ~found.found THEN "none"
                                      ELSE IF again.found THEN "found" ELSE "not_found",
                                      IF found.found THEN "replaced" ELSE "not_found",
                                      search_text, replace_text, t.insert, 0)
               /\ UNCHANGED <<current_tab, last_saved_count, running, world,
                              store_vars, disk, timer_vars>>

\* str.count(sub): the occurrences of sub, left to right, not overlapping,
\* letter case observed.
RECURSIVE PyCount(_, _)
PyCount(content, sub) ==
    IF Len(content) < Len(sub) THEN 0
    ELSE IF SubSeq(content, 1, Len(sub)) = sub
    THEN 1 + PyCount(SubSeq(content, Len(sub) + 1, Len(content)), sub)
    ELSE PyCount(Tail(content), sub)

\* str.replace(old, new)
RECURSIVE PyReplace(_, _, _)
PyReplace(content, old, new) ==
    IF Len(content) < Len(old) THEN content
    ELSE IF SubSeq(content, 1, Len(old)) = old
    THEN new \o PyReplace(SubSeq(content, Len(old) + 1, Len(content)), old, new)
    ELSE <<Head(content)>> \o PyReplace(Tail(content), old, new)

\* text_area.get("1.0", tk.END): the content and the newline that ends the
\* last line of every text widget.
GetToEnd(t) == t.content \o <<"\n">>

\* text_area.delete("1.0", tk.END); text_area.insert("1.0", new_content):
\* the widget keeps the newline that ends its last line.
SetText(t, new_content) ==
    [t EXCEPT !.content = new_content,
              !.edit_modified = TRUE,
              !.insert = Len(new_content),
              !.sel = <<>>]

\* replace_all; confirm is the answer to "Replace all ... occurrences?".
replace_all(search_text, replace_text, confirm) ==
    /\ running
    /\ Idle
    /\ ValidIdx(tabs, current_tab)
    /\ IF search_text = <<>>
       THEN UNCHANGED vars
       ELSE LET t == tabs[current_tab + 1]
                content == GetToEnd(t)
                count == PyCount(content, search_text)
                new_content == PyReplace(content, search_text, replace_text)
                res == IF count = 0 THEN "not_found"
                       ELSE IF ~confirm THEN "declined" ELSE "replaced"
            IN /\ res = "replaced" => Len(new_content) <= MaxText + 1
               /\ count = 0 => confirm
               /\ tabs' = [tabs EXCEPT ![current_tab + 1] =
                              IF res = "replaced" THEN SetText(t, new_content) ELSE t]
               /\ lastOp' = OpSearch("replace_all", current_tab,
                                      IF count = 0 THEN "none"
                                      ELSE IF confirm THEN "yes" ELSE "no",
                                      "none", res, search_text, replace_text,
                                      t.insert, count)
               /\ UNCHANGED <<current_tab, last_saved_count, running, world,
                              store_vars, disk, timer_vars>>

\* ---------------------------------------------------------------- auto_save

\* An auto_save call that has not returned: its loop is at index i, and
\* dialog tells whether the error dialog of its save_file(i) is open.
Frame(i, dialog) == [i |-> i, dialog |-> dialog]

Top(stack) == stack[Len(stack)]

Pop(stack) == SubSeq(stack, 1, Len(stack) - 1)

\* if tab["modified"] and tab["file_path"]
AutoSavesModified(t) == t.modified

AutoSaves(t) == t.modified /\ t.file_path # NoPath

\* root.after runs its callback once: the timer that fires is used up.
TimersOnFireKept(n) == n

TimersOnFire(n) == n - 1

\* A pending timer fires and auto_save starts.  The event loop runs between
\* handlers and inside the error dialog of a save made by auto_save.
auto_save_fire ==
    /\ running
    /\ timers > 0
    /\ Len(passes) < MaxPasses
    /\ Idle \/ (passes # <<>> /\ Top(passes).dialog)
    /\ timers' = TimersOnFire(timers)
    /\ passes' = Append(passes, Frame(0, FALSE))
    /\ lastOp' = Op("auto_save_fire", -1, "none", "none", "ok")
    /\ UNCHANGED <<tabs, current_tab, last_saved_count, running, world, store_vars, disk>>

\* One turn of the loop of auto_save: for i, tab in enumerate(self.tabs).
\* inp is what save_file(i) meets.
auto_save_visit(inp) ==
    /\ running
    /\ passes # <<>>
    /\ ~Top(passes).dialog
    /\ Top(passes).i < Len(tabs)
    /\ LET i == Top(passes).i
           t == tabs[i + 1]
       IN IF AutoSaves(t)
          THEN /\ inp \in SaveInputsOf(t)
               /\ LET r == SaveFile(tabs, last_saved_count, i, inp.dlg, inp.ok)
                      asked == Asked(tabs, i)
                  IN /\ tabs' = r.tabs
                     /\ last_saved_count' = r.lsc
                     /\ passes' = Append(Pop(passes),
                                         IF r.res = "failed" THEN Frame(i, TRUE)
                                                             ELSE Frame(i + 1, FALSE))
                     /\ lastOp' = Op("auto_save", i, "none", r.res, r.res)
                     /\ \E exist \in ExistSets(disk, IF asked
                                                      THEN Consulted(settings, {inp.dlg})
                                                      ELSE {}) :
                            LET e == SaveEnv(Env(disk, settings, settings_files), tabs,
                                             i, r, asked, exist)
                            IN /\ disk' = e.disk
                               /\ settings' = e.settings
                               /\ settings_files' = e.files
          ELSE /\ inp = NoSave
               /\ passes' = Append(Pop(passes), Frame(i + 1, FALSE))
               /\ lastOp' = Op("auto_save", i, "none", "none", "skipped")
               /\ UNCHANGED <<tabs, last_saved_count, store_vars, disk>>
    /\ UNCHANGED <<current_tab, running, world, timers>>

\* The user closes the error dialog of save_file(i): the loop goes on.
auto_save_dismiss ==
    /\ running
    /\ passes # <<>>
    /\ Top(passes).dialog
    /\ passes' = Append(Pop(passes), Frame(Top(passes).i + 1, FALSE))
    /\ lastOp' = Op("auto_save_dismiss", Top(passes).i, "none", "none", "ok")
    /\ UNCHANGED <<tabs, current_tab, last_saved_count, running, world, store_vars,
                   disk, timers>>

\* self.root.after(120000, self.auto_save): one more timer is pending.
RescheduleNever(n) == n

Reschedule(n) == n + 1

\* After the loop: self.root.after(120000, self.auto_save), and return.
auto_save_return ==
    /\ running
    /\ passes # <<>>
    /\ ~Top(passes).dialog
    /\ Top(passes).i >= Len(tabs)
    /\ timers' = Reschedule(timers)
    /\ passes' = Pop(passes)
    /\ lastOp' = Op("auto_save_return", -1, "none", "none", "ok")
    /\ UNCHANGED <<tabs, current_tab, last_saved_count, running, world, store_vars, disk>>

\* ---------------------------------------------------------------- close_tab

\* if tab_data["modified"]: askyesnocancel(...)
NeedsPromptNonBlank(t) == t.modified /\ \E k \in 1..Len(t.content) : t.content[k] # " "

NeedsPrompt(t) == t.modified

\* Cancel returns; Yes returns when save_file did not report True.
CloseAbortsOnCancelOnly(ans, saved) == ans = "cancel"

CloseAborts(ans, saved) == ans = "cancel" \/ (ans = "yes" /\ saved # "ok")

\* update_tab_indices: the <<Modified>>, status, label and close-button
\* bindings of every remaining tab are made anew with its position; the
\* <Tab> and <BackSpace> bindings are not.
UpdateTabIndicesNone(ts) == ts

UpdateTabIndices(ts) ==
    [k \in 1..Len(ts) |-> [ts[k] EXCEPT !.bind_idx = k - 1, !.status_idx = k - 1,
                                         !.label_idx = k - 1, !.close_idx = k - 1]]

\* if not self.tabs
NoTabsRemainNever(ts) == FALSE

NoTabsRemain(ts) == Len(ts) = 0

\* elif tab_idx < len(self.tabs): select_tab(tab_idx)
\* else: select_tab(len(self.tabs) - 1)
SelectAfterCloseSame(tab_idx, n) == tab_idx

SelectAfterClosePrev(tab_idx, n) == tab_idx - 1

SelectAfterClose(tab_idx, n) == IF tab_idx < n THEN tab_idx ELSE n - 1

close_tab(tab_idx, ans, inp) ==
    /\ running
    /\ Idle
    /\ ValidIdx(tabs, tab_idx)
    /\ LET prompted == NeedsPrompt(tabs[tab_idx + 1])
           answer == IF prompted THEN ans ELSE "none"
           sv == IF answer = "yes"
                 THEN SaveFile(tabs, last_saved_count, tab_idx, inp.dlg, inp.ok)
                 ELSE Result(tabs, last_saved_count, "none")
           asked == answer = "yes" /\ Asked(tabs, tab_idx)
       IN /\ \E exist \in ExistSets(disk, IF asked THEN Consulted(settings, {inp.dlg})
                                                   ELSE {}) :
                 LET e == IF answer = "yes"
                          THEN SaveEnv(Env(disk, settings, settings_files), tabs,
                                       tab_idx, sv, asked, exist)
                          ELSE Env(disk, settings, settings_files)
                 IN /\ disk' = e.disk
                    /\ settings' = e.settings
                    /\ settings_files' = e.files
          /\ IF CloseAborts(answer, sv.res)
             THEN /\ tabs' = sv.tabs
                  /\ last_saved_count' = sv.lsc
                  /\ current_tab' = current_tab
                  /\ lastOp' = Op("close_tab", tab_idx, answer, sv.res, "aborted")
             ELSE LET rest == UpdateTabIndices(RemoveAt(sv.tabs, tab_idx))
                  IN IF NoTabsRemain(rest)
                     THEN LET r == NewTab(rest, sv.lsc, <<>>, "Untitled", NoPath)
                          IN /\ tabs' = r.tabs
                             /\ last_saved_count' = r.lsc
                             /\ current_tab' = r.cur
                             /\ lastOp' = Op("close_tab", tab_idx, answer, sv.res, "replaced")
                     ELSE /\ tabs' = rest
                          /\ last_saved_count' = sv.lsc
                          /\ current_tab' = SelectTab(rest, current_tab,
                                                SelectAfterClose(tab_idx, Len(rest)))
                          /\ lastOp' = Op("close_tab", tab_idx, answer, sv.res, "removed")
    /\ UNCHANGED <<running, world, timer_vars>>

\* ----------------------------------------------------------------- on_close

\* if not self.save_file(i): return
AbortOnFailedSaveNever(res) == FALSE

AbortOnFailedSave(res) == res # "ok"

\* for i in range(len(self.tabs)): save_file(i), stopping at the first
\* save that does not report True.  inps[i] is what save_file(i) meets.
RECURSIVE SaveAll(_, _, _, _)
SaveAll(ts, lsc, i, inps) ==
    IF i >= Len(ts) THEN Result(ts, lsc, "ok")
    ELSE LET r == SaveFile(ts, lsc, i, inps[i].dlg, inps[i].ok)
         IN IF AbortOnFailedSave(r.res)
            THEN Result(r.tabs, r.lsc, "aborted")
            ELSE SaveAll(r.tabs, r.lsc, i + 1, inps)

\* What the saves of SaveAll leave outside the tabs.
RECURSIVE SaveAllEnv(_, _, _, _, _, _)
SaveAllEnv(env, ts, lsc, i, inps, exist) ==
    IF i >= Len(ts) THEN env
    ELSE LET r == SaveFile(ts, lsc, i, inps[i].dlg, inps[i].ok)
             e == SaveEnv(env, ts, i, r, Asked(ts, i), exist)
         IN IF AbortOnFailedSave(r.res)
            THEN e
            ELSE SaveAllEnv(e, r.tabs, r.lsc, i + 1, inps, exist)

\* self.save_settings(); self.root.destroy(): the pending timers die with
\* the interpreter.
on_close(ans, inps) ==
    /\ running
    /\ Idle
    /\ LET unsaved == {i \in 0..(Len(tabs) - 1) : tabs[i + 1].modified}
           response == IF unsaved # {} THEN ans ELSE "none"
           sv == IF response = "yes"
                 THEN SaveAll(tabs, last_saved_count, 0, inps)
                 ELSE Result(tabs, last_saved_count, "none")
           consulted == (Range(settings.recent_files)
                            \cup {inps[i].dlg : i \in DOMAIN inps}) \ {NoPath}
       IN IF response = "cancel"
          THEN UNCHANGED vars
          ELSE /\ tabs' = sv.tabs
               /\ last_saved_count' = sv.lsc
               /\ running' = (sv.res = "aborted")
               /\ lastOp' = Op("on_close", -1, response, sv.res,
                               IF sv.res = "aborted" THEN "aborted" ELSE "destroyed")
               /\ \E exist \in ExistSets(disk, consulted) :
                      LET e == IF response = "yes"
                               THEN SaveAllEnv(Env(disk, settings, settings_files), tabs,
                                               last_saved_count, 0, inps, exist)
                               ELSE Env(disk, settings, settings_files)
                      IN /\ disk' = e.disk
                         /\ settings' = e.settings
                         /\ settings_files' =
                                IF sv.res = "aborted" THEN e.files
                                ELSE SaveSettings(e.files, sv.tabs, e.settings, exist)
               /\ timers' = IF sv.res = "aborted" THEN timers ELSE 0
               /\ UNCHANGED <<current_tab, world, passes>>

Next ==
    \/ new_tab
    \/ \E idx \in 0..(Len(tabs) - 1) : select_tab(idx)
    \/ next_tab
    \/ previous_tab
    \/ \E c \in Chars : type_char(c)
    \/ delete_char
    \/ \E w \in 0..(Len(tabs) - 1) : on_text_modified(w)
    \/ \E p \in world.paths, file \in FileStates : open_specific_file(p, file)
    \/ \E inp \in SaveInputsOf(tabs[current_tab + 1]) : save_file(inp)
    \/ \E inp \in SaveInputsOf([file_path |-> NoPath]) : save_as_file(inp)
    \/ \E tab_idx \in 0..(Len(tabs) - 1), ans \in Answers \ {"yes"} :
           close_tab(tab_idx, ans, NoSave)
    \/ \E tab_idx \in 0..(Len(tabs) - 1) :
           \E inp \in SaveInputsOf(tabs[tab_idx + 1]) : close_tab(tab_idx, "yes", inp)
    \/ \E ans \in Answers \ {"yes"} :
           on_close(ans, [i \in 0..(Len(tabs) - 1) |-> NoSave])
    \/ \E inps \in SaveAllInputs(tabs) : on_close("yes", inps)

Spec == Init /\ [][Next]_vars

SpecObs == InitObs /\ [][Next]_vars

\* ------------------------------------------------- the auto-save timer

\* A settings.json that lists recent_files and leaves auto_save to its
\* default.
RecentOnly(recent_files) ==
    [default |-> JsonFile([recent_files |-> recent_files]),
     custom |-> NoFile,
     custom_dir |-> FALSE]

InitAuto ==
    /\ world = Shared({PathA}, FALSE)
    /\ settings_files \in {StoredSettings(<<PathA>>), RecentOnly(<<PathA>>)}
    /\ disk = <<>>
    /\ Start

NextAuto ==
    \/ new_tab
    \/ \E idx \in 0..(Len(tabs) - 1) : select_tab(idx)
    \/ \E c \in Chars : type_char(c)
    \/ delete_char
    \/ \E w \in 0..(Len(tabs) - 1) : on_text_modified(w)
    \/ \E p \in world.paths, file \in FileStates : open_specific_file(p, file)
    \/ \E inp \in SaveInputsOf(tabs[current_tab + 1]) : save_file(inp)
    \/ auto_save_fire
    \/ \E inp \in SaveInputs : auto_save_visit(inp)
    \/ auto_save_dismiss
    \/ auto_save_return

SpecAuto == InitAuto /\ [][NextAuto]_vars

(***************************************************************************)
(* The auto-save timer in a run in which the application keeps running     *)
(* and every write succeeds.  Tk runs a timer callback once its delay has  *)
(* passed and the event loop gets control, which it does after every       *)
(* handler: a pending timer that can fire again and again does fire.  A    *)
(* pass that has begun runs to its end (it is one call of auto_save), and  *)
(* a queued <<Modified>> event is delivered.                               *)
(***************************************************************************)
NextLive ==
    \/ new_tab
    \/ \E idx \in 0..(Len(tabs) - 1) : select_tab(idx)
    \/ \E c \in Chars : type_char(c)
    \/ delete_char
    \/ \E w \in 0..(Len(tabs) - 1) : on_text_modified(w)
    \/ \E p \in world.paths, file \in FileStates : open_specific_file(p, file)
    \/ \E inp \in SaveInputsOf(tabs[current_tab + 1]) \ {FailSave} : save_file(inp)
    \/ \E tab_idx \in 0..(Len(tabs) - 1), ans \in Answers \ {"yes"} :
           close_tab(tab_idx, ans, NoSave)
    \/ auto_save_fire
    \/ auto_save_visit(NoSave)
    \/ auto_save_return

Scheduling ==
    /\ SF_vars(auto_save_fire)
    /\ WF_vars(auto_save_visit(NoSave))
    /\ WF_vars(auto_save_return)
    /\ WF_vars(\E w \in 0..(Len(tabs) - 1) : on_text_modified(w))

SpecLive == InitAuto /\ [][NextLive]_vars /\ Scheduling

\* ---------------------------------------------------- files on a private disk

\* The characters of a file: a letter, carriage return, line feed.
FileChars == {"a", "\r", "\n"}

FileBytes == UNION {[1..n -> FileChars] : n \in 0..MaxBytes}

\* os.linesep: "\n" on POSIX, "\r\n" on Windows.
LineSeps == {<<"\n">>, <<"\r", "\n">>}

Private(paths, linesep) ==
    [paths |-> paths, observe |-> FALSE, private |-> TRUE, linesep |-> linesep,
     max_tabs |-> MaxTabs, keys |-> FALSE]

InitFile ==
    /\ world \in {Private({PathA}, linesep) : linesep \in LineSeps}
    /\ settings_files = StoredSettings(<<PathA>>)
    /\ disk \in {[x \in {AbsPath(PathA)} |-> TextFile(bytes)] : bytes \in FileBytes}
    /\ Start

NextFile ==
    \/ \E c \in Chars : type_char(c)
    \/ delete_char
    \/ \E w \in 0..(Len(tabs) - 1) : on_text_modified(w)
    \/ \E p \in world.paths : open_specific_file(p, DiskRead(disk, p))
    \/ \E inp \in SaveInputsOf(tabs[current_tab + 1]) : save_file(inp)
    \/ \E tab_idx \in 0..(Len(tabs) - 1) : close_tab(tab_idx, "no", NoSave)

SpecFile == InitFile /\ [][NextFile]_vars

\* ----------------------------------------------------- find and replace

\* The characters of the texts that are searched.
FindChars == {"a", "A", "b"}

FindTexts == UNION {[1..n -> FindChars] : n \in 0..MaxText}

\* What the user types in the search and replace entries.
EntryChars == {"a"}

SearchTexts == {<<"A">>, <<"b">>} \cup UNION {[1..n -> EntryChars] : n \in 0..MaxEntry}

ReplaceTexts == {<<>>, <<"a", "a">>}

\* A session whose one document holds a text the user has typed or pasted,
\* with INSERT anywhere in it.
InitFind ==
    /\ world = Shared({PathA}, FALSE)
    /\ settings_files = StoredSettings(<<PathA>>)
    /\ disk = <<>>
    /\ \E content \in FindTexts, pos \in 0..MaxText :
           /\ pos <= Len(content)
           /\ tabs = <<UpdateTabTitle([NewTabData(content, "Untitled", NoPath, 0)
                                           EXCEPT !.modified = (content # <<>>),
                                                  !.edit_modified = FALSE,
                                                  !.insert = pos])>>
    /\ current_tab = 0
    /\ last_saved_count = Put(<<>>, 0, 0)
    /\ running = TRUE
    /\ lastOp = Op("new_tab", 0, "none", "none", "ok")
    /\ settings = LoadSettings(settings_files).settings
    /\ timers = 0
    /\ passes = <<>>

NextFind ==
    \/ \E pos \in 0..(MaxText + 1) : click(pos)
    \/ \E w \in 0..(Len(tabs) - 1) : on_text_modified(w)
    \/ \E search_text \in SearchTexts : find_next(search_text)
    \/ \E search_text \in SearchTexts, replace_text \in ReplaceTexts :
           replace_next(search_text, replace_text)
    \/ \E search_text \in SearchTexts, replace_text \in ReplaceTexts, confirm \in BOOLEAN :
           replace_all(search_text, replace_text, confirm)

SpecFind == InitFind /\ [][NextFind]_vars

\* ------------------------------------------------------------ recent files

\* The files that are opened one after the other, in this order.
FileNames ==
    <<"f01", "f02", "f03", "f04", "f05", "f06", "f07", "f08", "f09", "f10",
      "f11", "f12", "f13", "f14">>

File(k) == <<"d", FileNames[k]>>

\* The path the Save As dialog returns.
SavedPath == <<"d", "s.txt">>

\* The number of the newest of the files in recent_files, 0 if there is none.
Newest(recent_files) ==
    LET ks == {k \in 1..NumFiles : File(k) \in Range(recent_files)}
    IN IF ks = {} THEN 0 ELSE CHOOSE k \in ks : \A h \in ks : k >= h

\* First run (no recent files yet) in a directory that holds NumFiles empty
\* files; every file can have its own tab.
InitRecent ==
    /\ world = [Private({File(k) : k \in 1..NumFiles} \cup {SavedPath}, <<"\n">>)
                   EXCEPT !.max_tabs = NumFiles + 1]
    /\ settings_files = StoredSettings(<<>>)
    /\ disk = [x \in {AbsPath(File(k)) : k \in 1..NumFiles} |-> TextFile(<<>>)]
    /\ Start

\* The files are opened in their order, each once; the first tab is closed,
\* a document without a path is saved under SavedPath, the window is closed.
NextRecent ==
    \/ \E w \in 0..(Len(tabs) - 1) : on_text_modified(w)
    \/ \E k \in {Newest(settings.recent_files) + 1} \cap 1..NumFiles :
           open_specific_file(File(k), DiskRead(disk, File(k)))
    \/ close_tab(0, "no", NoSave)
    \/ /\ tabs[current_tab + 1].file_path = NoPath
       /\ save_as_file([dlg |-> SavedPath, ok |-> TRUE])
    \/ on_close("no", [i \in 0..(Len(tabs) - 1) |-> NoSave])

SpecRecent == InitRecent /\ [][NextRecent]_vars

\* ---------------------------------------------------- loading the settings

\* What a settings.json at the default location can hold: any of these keys,
\* with values other than the defaults.
StoredData ==
    {[k \in keys |-> [theme |-> "light", auto_save |-> FALSE,
                      custom_settings_path |-> CustomDir][k]] :
        keys \in SUBSET {"theme", "auto_save", "custom_settings_path"}}

\* What a settings.json in the custom directory can hold.
CustomData ==
    {[k \in keys |-> [theme |-> "dark", tab_size |-> 2][k]] :
        keys \in SUBSET {"theme", "tab_size"}}

\* A settings file: not there, not JSON, or a JSON object.
SettingsFiles(data) == {NoFile, CorruptFile} \cup {JsonFile(d) : d \in data}

\* The program starts with any settings files; a file in the custom
\* directory needs the directory.
InitLoad ==
    /\ world = Shared({PathA}, FALSE)
    /\ settings_files \in
           {f \in [default : SettingsFiles(StoredData), custom : SettingsFiles(CustomData),
                   custom_dir : BOOLEAN] :
               f.custom # NoFile => f.custom_dir}
    /\ disk = <<>>
    /\ Start

NextLoad ==
    \/ new_tab
    \/ \E idx \in 0..(Len(tabs) - 1) : select_tab(idx)
    \/ \E c \in Chars : type_char(c)
    \/ delete_char
    \/ \E w \in 0..(Len(tabs) - 1) : on_text_modified(w)

SpecLoad == InitLoad /\ [][NextLoad]_vars

(***************************************************************************)
(* The Tab and BackSpace keys.  new_tab binds <Tab> and <BackSpace> of the *)
(* text area to handle_tab and handle_backspace with the index the tab has *)
(* when it is created; the key goes to the text area that has the focus,   *)
(* the one of the selected tab.  The documents of these runs hold no line  *)
(* break, so the column of the cursor is its offset, and nothing is ever   *)
(* selected in them.                                                       *)
(***************************************************************************)
Keyed(paths) == [Shared(paths, FALSE) EXCEPT !.keys = TRUE]

\* A settings file that asks for two spaces per tab stop.
KeysSettings ==
    [default |-> JsonFile([auto_save |-> FALSE, recent_files |-> <<PathA>>,
                           tab_size |-> 2]),
     custom |-> NoFile,
     custom_dir |-> FALSE]

\* " " * self.tab_size
Spaces(n) == [k \in 1..n |-> " "]

\* text_area.insert(INSERT, text)
InsertAt(content, pos, text) ==
    SubSeq(content, 1, pos) \o text \o SubSeq(content, pos + 1, Len(content))

\* text_area.delete(from, to)
DeleteRange(content, from, to) ==
    SubSeq(content, 1, from) \o SubSeq(content, to + 1, Len(content))

\* handle_tab returns "break" after it inserted the spaces into the text
\* area of self.tabs[tab_idx]; for an index outside the list it returns
\* None and the Text class binding inserts a tab character into the text
\* area that has the focus.
handle_tab ==
    /\ running
    /\ Idle
    /\ ValidIdx(tabs, current_tab)
    /\ LET tab_idx == tabs[current_tab + 1].key_idx
           handled == ValidIdx(tabs, tab_idx)
           target == IF handled THEN tab_idx ELSE current_tab
           text == IF handled THEN Spaces(settings.tab_size) ELSE <<"\t">>
           t == tabs[target + 1]
       IN /\ Len(t.content) + Len(text) <= MaxIndent
          /\ tabs' = [tabs EXCEPT ![target + 1] =
                         [t EXCEPT !.content = InsertAt(t.content, t.insert, text),
                                   !.insert = t.insert + Len(text),
                                   !.edit_modified = TRUE]]
          /\ lastOp' = Op("handle_tab", tab_idx, "none", "none",
                          IF handled THEN "break" ELSE "default")
    /\ UNCHANGED <<current_tab, last_saved_count, running, world, store_vars, disk,
                   timer_vars>>

\* handle_backspace deletes a block of tab_size spaces in front of the
\* cursor of self.tabs[tab_idx] and returns "break"; in every other case it
\* returns None and the Text class binding deletes the character in front
\* of the cursor of the text area that has the focus.
handle_backspace ==
    /\ running
    /\ Idle
    /\ ValidIdx(tabs, current_tab)
    /\ LET tab_idx == tabs[current_tab + 1].key_idx
           tab_size == settings.tab_size
           column == tabs[tab_idx + 1].insert
           block == /\ ValidIdx(tabs, tab_idx)
                    /\ column > 0
                    /\ column % tab_size = 0
                    /\ SubSeq(tabs[tab_idx + 1].content, column - tab_size + 1, column)
                           = Spaces(tab_size)
           target == IF block THEN tab_idx ELSE current_tab
           t == tabs[target + 1]
           from == IF block THEN column - tab_size ELSE t.insert - 1
       IN /\ from >= 0
          /\ tabs' = [tabs EXCEPT ![target + 1] =
                         [t EXCEPT !.content = DeleteRange(t.content, from, t.insert),
                                   !.insert = from,
                                   !.edit_modified = TRUE]]
          /\ lastOp' = Op("handle_backspace", tab_idx, "none", "none",
                          IF block THEN "break" ELSE "default")
    /\ UNCHANGED <<current_tab, last_saved_count, running, world, store_vars, disk,
                   timer_vars>>

InitKeys ==
    /\ world = Keyed({PathA})
    /\ settings_files = KeysSettings
    /\ disk = <<>>
    /\ Start

NextKeys ==
    \/ new_tab
    \/ \E idx \in 0..(Len(tabs) - 1) : select_tab(idx)
    \/ handle_tab
    \/ handle_backspace
    \/ \E w \in 0..(Len(tabs) - 1) : on_text_modified(w)
    \/ \E tab_idx \in 0..(Len(tabs) - 1), ans \in Answers \ {"yes"} :
           close_tab(tab_idx, ans, NoSave)

SpecKeys == InitKeys /\ [][NextKeys]_vars

(***************************************************************************)
(* The preference menu.  Every handler changes self.settings (and the      *)
(* attribute save_settings reads for the key, which always holds the same  *)
(* value as the settings entry), updates the open text areas and calls     *)
(* save_settings as its last statement.  toggle_word_wrap and              *)
(* toggle_line_highlight reach the text area as tab.tab_data["text_area"]  *)
(* and add_line_numbers_to_tab(tab) as tab_frame.tab_data["text_area"],    *)
(* but the elements of self.tabs are dicts: the first round of the loop    *)
(* raises AttributeError, Tk reports it and the handler ends there.        *)
(***************************************************************************)
Themes == {"dark", "light"}

Fonts == {"Consolas", "Courier New"}

FontSizes == {12, 14}

\* for tab in self.tabs: ... tab.tab_data ...
LoopRaises(ts) == Len(ts) > 0

Preference(op, s, raises) ==
    /\ Idle
    /\ settings' = s
    /\ IF raises
       THEN settings_files' = settings_files
       ELSE \E exist \in ExistSets(disk, Range(settings.recent_files)) :
                settings_files' = SaveSettings(settings_files, tabs, s, exist)
    /\ lastOp' = Op(op, -1, "none", "none", IF raises THEN "raised" ELSE "ok")
    /\ UNCHANGED <<tabs, current_tab, last_saved_count, running, world, disk,
                   timer_vars>>

change_theme(theme_name) ==
    /\ running
    /\ Preference("change_theme", [settings EXCEPT !.theme = theme_name], FALSE)

change_font(font_name) ==
    /\ running
    /\ Preference("change_font", [settings EXCEPT !.font = font_name], FALSE)

change_font_size(size) ==
    /\ running
    /\ Preference("change_font_size", [settings EXCEPT !.font_size = size], FALSE)

toggle_word_wrap ==
    /\ running
    /\ Preference("toggle_word_wrap", [settings EXCEPT !.word_wrap = ~@], LoopRaises(tabs))

\* Turning the line numbers off only looks for an attribute the dicts do not
\* have; turning them on calls add_line_numbers_to_tab(tab).
toggle_line_numbers ==
    /\ running
    /\ Preference("toggle_line_numbers", [settings EXCEPT !.show_line_numbers = ~@],
                  ~settings.show_line_numbers /\ LoopRaises(tabs))

toggle_line_highlight ==
    /\ running
    /\ Preference("toggle_line_highlight",
                  [settings EXCEPT !.highlight_current_line = ~@], LoopRaises(tabs))

InitPrefs ==
    /\ world = Shared({PathA}, FALSE)
    /\ settings_files = StoredSettings(<<PathA>>)
    /\ disk = <<>>
    /\ Start

NextPrefs ==
    \/ \E theme_name \in Themes : change_theme(theme_name)
    \/ \E font_name \in Fonts : change_font(font_name)
    \/ \E size \in FontSizes : change_font_size(size)
    \/ toggle_word_wrap
    \/ toggle_line_numbers
    \/ toggle_line_highlight
    \/ new_tab
    \/ \E w \in 0..(Len(tabs) - 1) : on_text_modified(w)
    \/ \E ans \in Answers \ {"yes"} :
           on_close(ans, [i \in 0..(Len(tabs) - 1) |-> NoSave])

SpecPrefs == InitPrefs /\ [][NextPrefs]_vars

\* ------------------------------------------------------------ properties

\* str.strip() == "": the text is empty or holds only blanks.
IsBlank(text) == \A k \in 1..Len(text) : text[k] = " "

Removed == {"removed", "replaced"}

Saves == {"save_file", "save_as_file"}

\* The step is a step of operation op (a step that changes nothing is a
\* step of no operation).
StepOf(op) == vars' # vars /\ lastOp'.op = op

StepOfSave == vars' # vars /\ lastOp'.op \in Saves

\* C1: while the application runs the session holds at least one document.
C1_AtLeastOneTab == running => Len(tabs) >= 1

C1_Witness ==
    /\ running
    /\ lastOp.op = "close_tab"
    /\ lastOp.res = "replaced"
    /\ Len(tabs) = 1

\* C2: while the application runs current_tab is a valid index of tabs.
C2_ActiveIndexValid == running => ValidIdx(tabs, current_tab)

C2_Witness ==
    /\ running
    /\ lastOp.op = "close_tab"
    /\ lastOp.res = "removed"
    /\ lastOp.idx >= Len(tabs)
    /\ current_tab = Len(tabs) - 1

C4_Step ==
    /\ (/\ StepOf("close_tab")
        /\ lastOp'.res \in Removed
        /\ tabs[lastOp'.idx + 1].modified)
           => \/ lastOp'.ans = "no"
              \/ lastOp'.ans = "yes" /\ lastOp'.saved = "ok"
    /\ (/\ StepOf("on_close")
        /\ running /\ ~running'
        /\ \E k \in 1..Len(tabs) : tabs[k].modified)
           => \/ lastOp'.ans = "no"
              \/ lastOp'.ans = "yes" /\ \A k \in 1..Len(tabs') : ~tabs'[k].modified

C4_NoUnpromptedLoss == [][C4_Step]_vars

C4_Witness ==
    /\ ~running
    /\ lastOp.op = "on_close"
    /\ lastOp.ans = "yes"
    /\ lastOp.saved = "ok"

\* C5: new_tab appends the new document, leaves the others in place, makes
\* it active and records it clean with a saved length equal to the length
\* of its content.
C5_State ==
    lastOp.op \in {"create_first_tab", "new_tab"}
        => LET i == Len(tabs) - 1
           IN /\ current_tab = i
              /\ ~tabs[i + 1].modified
              /\ Get(last_saved_count, i) = Len(tabs[i + 1].content)

C5_Step ==
    StepOf("new_tab")
        => /\ Len(tabs') = Len(tabs) + 1
           /\ \A k \in 1..Len(tabs) : tabs'[k] = tabs[k]

C5_NewTabRecordsContentLength == []C5_State /\ [][C5_Step]_vars

\* C6: opening a path that resolves to the absolute path of an open
\* document adds no tab and activates that document.
C6_Step ==
    \A p \in Paths, file \in FileStates :
        (/\ file.kind = "text"
         /\ open_specific_file(p, file)
         /\ \E k \in 1..Len(tabs) :
                /\ tabs[k].file_path # NoPath
                /\ AbsPath(tabs[k].file_path) = AbsPath(p))
            => /\ Len(tabs') = Len(tabs)
               /\ AbsPath(tabs'[current_tab' + 1].file_path) = AbsPath(p)

C6_OpenActivatesResolvedPath == [][C6_Step]_vars

\* C7: a failed save or save-as leaves the tabs (dirty flag, path, title),
\* the saved lengths and the rest of the session as they were, and a save
\* that succeeds leaves the document clean.
C7_Step ==
    /\ (StepOfSave /\ lastOp'.res = "failed")
           => /\ tabs' = tabs
              /\ last_saved_count' = last_saved_count
              /\ current_tab' = current_tab
              /\ running'
    /\ (StepOfSave /\ lastOp'.res = "ok")
           => ~tabs'[lastOp'.idx + 1].modified

C7_FailedSaveKeepsState == [][C7_Step]_vars

C7_Witness ==
    /\ lastOp.op = "save_file"
    /\ lastOp.res = "failed"
    /\ tabs[lastOp.idx + 1].modified
    /\ tabs[lastOp.idx + 1].file_path # NoPath

\* C8: close_tab on a dirty document changes nothing when the answer is
\* Cancel, or Yes with a save that failed or a Save-As that was cancelled.
C8_Step ==
    (/\ StepOf("close_tab")
     /\ tabs[lastOp'.idx + 1].modified
     /\ \/ lastOp'.ans = "cancel"
        \/ lastOp'.ans = "yes" /\ lastOp'.saved # "ok")
        => /\ lastOp'.res = "aborted"
           /\ UNCHANGED <<tabs, current_tab, last_saved_count, running>>

C8_AbortedCloseKeepsSession == [][C8_Step]_vars

C8_Witness ==
    /\ lastOp.op = "close_tab"
    /\ lastOp.res = "aborted"
    /\ lastOp.ans = "yes"
    /\ lastOp.saved = "failed"
    /\ tabs[lastOp.idx + 1].modified

\* What the user sees of a document.
Doc(t) == [title |-> t.title, file_path |-> t.file_path,
           modified |-> t.modified, content |-> t.content]

\* C9: after close_tab(i) removed a document, the other documents are kept
\* in order and the active index is i if still valid, else the last index;
\* if it was the only document, one fresh blank clean pathless "Untitled"
\* document is there, active, and the application runs.
C9_Step ==
    (StepOf("close_tab") /\ lastOp'.res \in Removed)
        => LET i == lastOp'.idx
           IN IF Len(tabs) > 1
              THEN /\ Len(tabs') = Len(tabs) - 1
                   /\ \A k \in 1..Len(tabs') :
                          Doc(tabs'[k]) = [Doc(tabs[IF k <= i THEN k ELSE k + 1])
                                               EXCEPT !.modified = tabs'[k].modified]
                   /\ current_tab' = IF i < Len(tabs') THEN i ELSE Len(tabs') - 1
                   /\ running'
              ELSE /\ Len(tabs') = 1
                   /\ Doc(tabs'[1]) = [title |-> "Untitled", file_path |-> NoPath,
                                       modified |-> FALSE, content |-> <<>>]
                   /\ current_tab' = 0
                   /\ running'

C9_SelectionAfterClose == [][C9_Step]_vars

C9_Witness ==
    /\ running
    /\ lastOp.op = "close_tab"
    /\ lastOp.res = "removed"
    /\ lastOp.idx < Len(tabs)
    /\ current_tab = lastOp.idx

\* C10 as stated: close_tab prompts exactly when the document is dirty and
\* its content is not blank.
C10_OriginalStep ==
    StepOf("close_tab")
        => LET t == tabs[lastOp'.idx + 1]
           IN (lastOp'.ans # "none") <=> (t.modified /\ ~IsBlank(t.content))

C10_PromptUnlessBlank == [][C10_OriginalStep]_vars

\* C10 as amended: close_tab prompts exactly when the document is dirty,
\* whatever its content, blank or not.
C10_Step ==
    StepOf("close_tab")
        => ((lastOp'.ans # "none") <=> tabs[lastOp'.idx + 1].modified)

C10_PromptIffDirty == [][C10_Step]_vars

C10_Witness ==
    /\ lastOp.op = "close_tab"
    /\ lastOp.res = "aborted"
    /\ lastOp.ans = "cancel"
    /\ tabs[lastOp.idx + 1].modified
    /\ IsBlank(tabs[lastOp.idx + 1].content)

\* C11: a turn of auto_save writes the document it visits exactly when the
\* document is dirty and has a file path, and a successful write leaves it
\* clean; a document without a path or not dirty is left as it is; no other
\* document changes, and no path, title or recent-files entry changes (no
\* Save-As dialog is answered).
C11_Step ==
    StepOf("auto_save")
        => LET i == lastOp'.idx
               t == tabs[i + 1]
           IN /\ i = Top(passes).i
              /\ (lastOp'.res # "skipped") <=> (t.modified /\ t.file_path # NoPath)
              /\ lastOp'.res \in {"ok", "failed", "skipped"}
              /\ lastOp'.res = "ok"
                     => tabs'[i + 1] = [t EXCEPT !.modified = FALSE, !.tab_title = <<t.title>>]
              /\ lastOp'.res # "ok"
                     => tabs'[i + 1] = t /\ last_saved_count' = last_saved_count
              /\ Len(tabs') = Len(tabs)
              /\ \A k \in 1..Len(tabs) : k # i + 1 => tabs'[k] = tabs[k]
              /\ tabs'[i + 1].file_path = t.file_path
              /\ UNCHANGED <<current_tab, settings, settings_files>>

C11_AutoSaveWritesDirtyWithPath == [][C11_Step]_vars

C11_Witness ==
    /\ lastOp.op = "auto_save"
    /\ lastOp.res = "ok"
    /\ ~tabs[lastOp.idx + 1].modified
    /\ \E k \in 1..Len(tabs) : tabs[k].modified /\ tabs[k].file_path = NoPath

\* C12: at most one auto_save timer is pending and at most one auto_save
\* call is running, never both a pending timer and a running call; with
\* auto_save off in the loaded settings there is never a timer or a call.
C12_SingleAutoSave ==
    /\ timers + Len(passes) <= 1
    /\ ~settings.auto_save => (timers = 0 /\ passes = <<>>)

C12_Witness ==
    /\ running
    /\ timers = 0
    /\ Len(passes) = 1
    /\ Top(passes).dialog

\* C13: a successful save of a document that holds what was read from its
\* file (an open followed by no edit) leaves in the file exactly the
\* characters it had: none added, removed or changed.
C13_Step ==
    (/\ StepOfSave
     /\ lastOp'.res = "ok"
     /\ LET t == tabs[lastOp'.idx + 1]
        IN /\ t.file_path # NoPath
           /\ DiskRead(disk, t.file_path).kind = "text"
           /\ t.content = ReadText(DiskRead(disk, t.file_path).text))
        => disk' = disk

C13_OpenSaveRoundTrip == [][C13_Step]_vars

\* The offsets at which pat occurs in content, letter case ignored.
Occurrences(content, pat) ==
    {k \in 0..(Len(content) - Len(pat)) :
        \A j \in 1..Len(pat) : Lower(content[k + j]) = Lower(pat[j])}

Least(S) == CHOOSE k \in S : \A h \in S : k <= h

Greatest(S) == CHOOSE k \in S : \A h \in S : k >= h

\* The first occurrence at or after from, else the first occurrence.
FirstFrom(occ, from) ==
    IF \E k \in occ : k >= from THEN Least({k \in occ : k >= from}) ELSE Least(occ)

\* The text area t with match m of pat selected and INSERT at its end.
Selected(t, m, pat) == [t EXCEPT !.sel = <<m, m + Len(pat)>>, !.insert = m + Len(pat)]

\* C14: find_next reports not-found exactly when the content has no
\* occurrence of the search text, letter case ignored; otherwise it selects
\* the first occurrence that starts at or after INSERT, or failing that the
\* first occurrence of the document, and puts INSERT at its end; it changes
\* nothing else.
C14_Step ==
    StepOf("find_next")
        => LET t == tabs[current_tab + 1]
               pat == lastOp'.search_text
               occ == Occurrences(t.content, pat)
           IN /\ (lastOp'.res = "not_found") <=> (occ = {})
              /\ tabs' = [tabs EXCEPT ![current_tab + 1] =
                             IF occ = {} THEN t
                             ELSE Selected(t, FirstFrom(occ, t.insert), pat)]
              /\ UNCHANGED <<current_tab, last_saved_count, running>>

C14_FindNextFromCursor == [][C14_Step]_vars

C14_Witness ==
    /\ lastOp.op = "find_next"
    /\ lastOp.res = "found"
    /\ LET t == tabs[lastOp.idx + 1]
       IN /\ t.sel[1] < lastOp.start_pos
          /\ SubSeq(t.content, t.sel[1] + 1, t.sel[2]) # lastOp.search_text

\* C15 as stated: with at least two occurrences, find_next started at the
\* start of the last occurrence selects the first occurrence.
C15_OriginalStep ==
    StepOf("find_next")
        => LET t == tabs[current_tab + 1]
               pat == lastOp'.search_text
               occ == Occurrences(t.content, pat)
           IN (Cardinality(occ) >= 2 /\ t.insert = Greatest(occ))
                  => tabs'[current_tab + 1].sel = <<Least(occ), Least(occ) + Len(pat)>>

C15_WrapsAtLastOccurrence == [][C15_OriginalStep]_vars

\* C15 as amended: with at least two occurrences, find_next started after
\* the start of the last occurrence selects the first occurrence, and
\* started at the start of the last occurrence it selects that occurrence.
C15_Step ==
    StepOf("find_next")
        => LET t == tabs[current_tab + 1]
               pat == lastOp'.search_text
               occ == Occurrences(t.content, pat)
               sel == tabs'[current_tab + 1].sel
           IN /\ (Cardinality(occ) >= 2 /\ t.insert > Greatest(occ))
                     => sel = <<Least(occ), Least(occ) + Len(pat)>>
              /\ (Cardinality(occ) >= 2 /\ t.insert = Greatest(occ))
                     => sel = <<Greatest(occ), Greatest(occ) + Len(pat)>>

C15_WrapsAfterLastOccurrence == [][C15_Step]_vars

C15_Witness ==
    /\ lastOp.op = "find_next"
    /\ lastOp.res = "found"
    /\ LET t == tabs[lastOp.idx + 1]
           occ == Occurrences(t.content, lastOp.search_text)
       IN /\ Cardinality(occ) >= 2
          /\ lastOp.start_pos > Greatest(occ)
          /\ t.sel = <<Least(occ), Least(occ) + Len(lastOp.search_text)>>

\* C16: a confirmed replace_all leaves the content equal to the previous
\* content with every occurrence of the search text replaced, nothing else
\* added or removed, and reports the number of occurrences; with no
\* occurrence or a declined confirmation the content is unchanged.
C16_Step ==
    StepOf("replace_all")
        => LET t == tabs[current_tab + 1]
               pat == lastOp'.search_text
               content == tabs'[current_tab + 1].content
           IN IF PyCount(t.content, pat) > 0 /\ lastOp'.ans = "yes"
              THEN /\ content = PyReplace(t.content, pat, lastOp'.replace_text)
                   /\ lastOp'.count = PyCount(t.content, pat)
              ELSE content = t.content

C16_ReplaceAllReplacesOnly == [][C16_Step]_vars

\* C17: replace_next with no occurrence of the search text leaves the text
\* area as it is (content, dirty flag, INSERT, selection); otherwise the
\* content is the previous content with the occurrence find_next selects
\* replaced by the replace text, and the occurrence find_next selects from
\* the end of the replacement, if there is one, is selected.
C17_Step ==
    StepOf("replace_next")
        => LET t == tabs[current_tab + 1]
               after == tabs'[current_tab + 1]
               pat == lastOp'.search_text
               new == lastOp'.replace_text
               occ == Occurrences(t.content, pat)
           IN IF occ = {}
              THEN after = t /\ lastOp'.res = "not_found"
              ELSE LET m == FirstFrom(occ, t.insert)
                       content == SubSeq(t.content, 1, m) \o new
                                      \o SubSeq(t.content, m + Len(pat) + 1, Len(t.content))
                       occ2 == Occurrences(content, pat)
                       replaced == [t EXCEPT !.content = content, !.edit_modified = TRUE,
                                             !.insert = m + Len(new), !.sel = <<>>]
                   IN after = IF occ2 = {} THEN replaced
                              ELSE Selected(replaced, FirstFrom(occ2, m + Len(new)), pat)

C17_ReplaceNextIsFindReplaceFind == [][C17_Step]_vars

C17_Witness ==
    /\ lastOp.op = "replace_next"
    /\ lastOp.res = "replaced"
    /\ lastOp.saved = "found"
    /\ lastOp.replace_text # <<>>
    /\ tabs[lastOp.idx + 1].sel # <<>>

\* recent_files as the settings file at the default location holds it.
WrittenRecent == settings_files.default.data.recent_files

\* Nothing has been saved under SavedPath: files were opened and tabs
\* closed, no more.
OnlyOpened == AbsPath(SavedPath) \notin DOMAIN disk

\* C18: recent_files never has more than 10 entries, in the settings in
\* memory and in the settings file, whatever was opened and saved; once k
\* distinct files have been opened, both lists contain the k-th file, none
\* of the files up to the (k-10)-th, and exactly 10 entries if k is 10 or
\* more (k = 12: ten entries, the twelfth file among them, the first and
\* second not).
C18_RecentFilesBounded ==
    LET k == Newest(settings.recent_files)
    IN /\ Len(settings.recent_files) <= RecentLimit
       /\ Len(WrittenRecent) <= RecentLimit
       /\ OnlyOpened =>
              \A list \in {settings.recent_files, WrittenRecent} :
                  /\ k >= 1 => File(k) \in Range(list)
                  /\ \A j \in 1..(k - RecentLimit) : File(j) \notin Range(list)
                  /\ k >= RecentLimit => Len(list) = RecentLimit

C18_Witness ==
    /\ lastOp.op = "open"
    /\ OnlyOpened
    /\ Newest(settings.recent_files) = 12
    /\ Len(tabs) = 13
    /\ Len(settings.recent_files) = RecentLimit
    /\ Len(WrittenRecent) = RecentLimit
    /\ File(1) \notin Range(WrittenRecent)

NoDuplicates(list) == Cardinality(Range(list)) = Len(list)

\* C19: no path is twice in recent_files, neither in the settings in memory
\* nor in the settings file save_settings has written.
C19_RecentFilesDeduplicated ==
    /\ NoDuplicates(settings.recent_files)
    /\ NoDuplicates(WrittenRecent)

\* The value of key k in the JSON object of file f, the default if the
\* object has no such key.
Stored(f, k) == IF k \in DOMAIN f.data THEN f.data[k] ELSE DefaultSettings[k]

\* The settings file at the default location names a custom location.
NamesCustom ==
    /\ settings_files.default.kind = "json"
    /\ Stored(settings_files.default, "custom_settings_path") # NoPath

\* The settings are the value of every key in file f, the default for the
\* keys it does not have.
SettingsFrom(f) == \A k \in DOMAIN DefaultSettings : settings[k] = Stored(f, k)

C26_OnePathOneTab ==
    \A i, j \in 1..Len(tabs) :
        (i # j /\ tabs[i].file_path # NoPath) => tabs[i].file_path # tabs[j].file_path

\* The preference keys of the settings file.
PreferenceKeys ==
    {"theme", "font", "font_size", "auto_save", "word_wrap", "tab_size",
     "show_line_numbers", "highlight_current_line"}

\* C27: when on_close has written the settings and destroyed the window,
\* load_settings at the next start-up returns, for every preference key,
\* the value the session had.
C27_Step ==
    (StepOf("on_close") /\ ~running')
        => \A k \in PreferenceKeys : LoadSettings(settings_files').settings[k] = settings[k]

C27_SettingsRoundTrip == [][C27_Step]_vars

\* C28: on_close answered "save all" saves the modified documents only: a
\* document that was not modified is left as it was, and the close is
\* aborted only if a modified document is still modified afterwards.
C28_Step ==
    (StepOf("on_close") /\ lastOp'.ans = "yes")
        => /\ \A i \in 1..Len(tabs) : ~tabs[i].modified => tabs'[i] = tabs[i]
           /\ running' => \E i \in 1..Len(tabs) : tabs[i].modified /\ tabs'[i].modified

C28_SaveAllSavesModifiedOnly == [][C28_Step]_vars

\* C29: find_next finds a match exactly when replace_all counts at least
\* one occurrence of the same search text in the same content, and after a
\* confirmed replace_all with a replace text that does not contain the
\* search text find_next has nothing left to find.
C29_Step ==
    /\ StepOf("find_next")
           => ((lastOp'.res = "found")
                  <=> PyCount(GetToEnd(tabs[current_tab + 1]), lastOp'.search_text) > 0)
    /\ (StepOf("replace_all") /\ lastOp'.res = "replaced"
           /\ Occurrences(lastOp'.replace_text, lastOp'.search_text) = {})
           => Occurrences(tabs'[current_tab + 1].content, lastOp'.search_text) = {}

C29_FindAndReplaceAllAgree == [][C29_Step]_vars

\* C30: when the last edit was a replace_next that left an occurrence of
\* the search text selected, and the replace text does not contain the
\* search text, the next replace_next replaces that selected occurrence.
C30_Step ==
    StepOf("replace_next")
        => LET t == tabs[current_tab + 1]
               pat == lastOp'.search_text
               new == lastOp'.replace_text
           IN (/\ lastOp.op = "on_text_modified"
               /\ t.sel # <<>>
               /\ t.sel[1] \in Occurrences(t.content, pat)
               /\ t.sel[2] = t.sel[1] + Len(pat)
               /\ Occurrences(new, pat) = {})
                  => tabs'[current_tab + 1].content =
                         SubSeq(t.content, 1, t.sel[1]) \o new
                             \o SubSeq(t.content, t.sel[2] + 1, Len(t.content))

C30_ReplaceNextReplacesSelected == [][C30_Step]_vars

(***************************************************************************)
(* C22: marking a document modified is idempotent.  A modification         *)
(* notification delivered while a document is dirty leaves it dirty, and   *)
(* its label shows the base title followed by exactly one " *".            *)
(***************************************************************************)
C22_Step ==
    StepOf("on_text_modified")
        => \A i \in 1..Len(tabs) :
               tabs[i].modified
                   => /\ tabs'[i].modified
                      /\ tabs'[i].tab_title = <<tabs'[i].title, " *">>

\* C22: a notification for a dirty document keeps it dirty with one marker.
C22_MarkModifiedIdempotent == [][C22_Step]_vars

\* A notification was handled for a document that was dirty before it: the
\* character count it compared equals the remembered one, so this
\* notification is not the one that set the flag.
C22_Witness ==
    /\ lastOp.op = "on_text_modified"
    /\ ValidIdx(tabs, lastOp.idx)
    /\ tabs[lastOp.idx + 1].modified
    /\ Len(tabs[lastOp.idx + 1].content) = Get(last_saved_count, lastOp.idx)

(***************************************************************************)
(* C24: after any sequence of new_tab, open and close_tab, the select,     *)
(* close-button, modified and status handlers bound to the tab at          *)
(* position i all carry index i.                                           *)
(***************************************************************************)
\* C24: every tab's select, close, modified and status bindings carry its position.
C24_BindingsCarryPosition ==
    \A i \in 1..Len(tabs) :
        /\ tabs[i].label_idx = i - 1
        /\ tabs[i].close_idx = i - 1
        /\ tabs[i].bind_idx = i - 1
        /\ tabs[i].status_idx = i - 1

\* A tab was closed in front of another one, which moved down a position.
C24_Witness ==
    /\ lastOp.op = "close_tab"
    /\ lastOp.res = "removed"
    /\ Len(tabs) >= 1
    /\ lastOp.idx < Len(tabs)

(***************************************************************************)
(* C25: the Tab key and the smart BackSpace pressed in a document's text   *)
(* area act on that document only, and the Tab key is never left to the    *)
(* default tab-character behaviour because of a stale index.               *)
(***************************************************************************)
C25_Step ==
    /\ StepOf("handle_tab")
           => LET t == tabs[current_tab + 1]
              IN /\ lastOp'.res = "break"
                 /\ tabs'[current_tab + 1].content =
                        InsertAt(t.content, t.insert, Spaces(settings.tab_size))
                 /\ \A i \in 1..Len(tabs) :
                        i # current_tab + 1 => tabs'[i].content = tabs[i].content
    /\ StepOf("handle_backspace")
           => \A i \in 1..Len(tabs) :
                  i # current_tab + 1 => tabs'[i].content = tabs[i].content

\* C25: Tab and BackSpace change the document they are pressed in, and no other.
C25_KeysActOnOwnDocument == [][C25_Step]_vars

(***************************************************************************)
(* C21: every preference action (theme, font, font size, word wrap, line   *)
(* numbers, current-line highlight) completes with a write of the settings *)
(* file that reflects the new value, and on_close writes the settings      *)
(* before the window is destroyed.                                         *)
(***************************************************************************)
PreferenceOps ==
    {"change_theme", "change_font", "change_font_size", "toggle_word_wrap",
     "toggle_line_numbers", "toggle_line_highlight"}

MenuKeys ==
    {"theme", "font", "font_size", "word_wrap", "show_line_numbers",
     "highlight_current_line"}

\* The settings file holds the value the key has in memory.
Reflects(files, s, k) ==
    LET file == IF s.custom_settings_path # NoPath THEN files.custom ELSE files.default
    IN /\ file.kind = "json"
       /\ k \in DOMAIN file.data
       /\ file.data[k] = s[k]

C21_Step ==
    ((vars' # vars /\ lastOp'.op \in PreferenceOps) \/ (StepOf("on_close") /\ ~running'))
        => \A k \in MenuKeys : Reflects(settings_files', settings', k)

\* C21: after a preference action, and at exit, the settings file holds the new values.
C21_PreferencesWritten == [][C21_Step]_vars

(***************************************************************************)
(* C23: if auto-save is enabled at start-up, the application keeps         *)
(* running and the writes succeed, every dirty document with a path is     *)
(* eventually clean or closed, and the timer chain never stops             *)
(* rescheduling itself.                                                    *)
(***************************************************************************)
\* The tab at position i is dirty and has a path.
DirtyWithPath(i) == settings.auto_save /\ i <= Len(tabs) /\ AutoSaves(tabs[i])

\* The tab at position i is clean, or the document that was there is closed
\* (a close at or in front of the position removed or moved it).
CleanOrClosed(i) ==
    \/ i > Len(tabs)
    \/ ~tabs[i].modified
    \/ lastOp.op = "close_tab" /\ lastOp.res \in {"removed", "replaced"}
           /\ lastOp.idx < i

\* C23: auto-save eventually cleans every dirty document with a path, and
\* the timer is rescheduled again and again.
C23_AutoSaveEventuallySaves ==
    /\ \A i \in 1..MaxTabs : DirtyWithPath(i) ~> CleanOrClosed(i)
    /\ [](settings.auto_save => timers + Len(passes) >= 1)
    /\ []<>(settings.auto_save => lastOp.op = "auto_save_return")

\* The second pass or a later one has ended and left a timer pending, after a
\* document with a path was saved by a pass.
C23_Witness ==
    /\ lastOp.op = "auto_save_return"
    /\ timers = 1
    /\ passes = <<>>
    /\ \E k \in 1..Len(tabs) :
           /\ tabs[k].file_path # NoPath
           /\ ~tabs[k].modified
           /\ Get(last_saved_count, k - 1) = Len(tabs[k].content)

====
